---- MODULE Spec2Model ----
(***************************************************************************)
(* Single-GPU Jacobi solver (jacobi_single_GPU_ROCm.cpp): the host loop of *)
(* main, the three HIP streams it drives, the events that order them, the  *)
(* two norm slots and the stencil kernel.                                  *)
(*                                                                         *)
(* `real` (float) is represented by integers: v stands for v / ONE, and a  *)
(* value keeps MantBits significant bits.  Sums, differences and products  *)
(* are rounded to that format, products are rescaled by ONE and the square *)
(* root is the fixed-point square root, so rounding and underflow exist in *)
(* the model as they do in the program.                                    *)
(***************************************************************************)
EXTENDS Integers, Sequences, FiniteSets, TLC

\* ------------------------------------------------------------------ bounds
\* largest -niter value explored (the smallest is -1)
MaxIterMax == 5
\* largest unsupported -nccheck value explored (0 .. MaxNccheck)
MaxNccheck == 2

\* grid shapes <<nx, ny>> explored
Shapes == {<<3, 3>>, <<4, 5>>, <<3, 7>>}

\* -------------------------------------------------- arithmetic on `real`
\* the number of units in 1.0
ONE == 256

\* constexpr real tol = 1.0e-8: less than half a unit, so 0 units
tol == 0

\* the number of significant bits a `real` keeps
MantBits == 10

\* magnitudes below RealLimit are `real` values
RealLimit == 2 ^ MantBits

\* the spacing of the `real` values around magnitude m
RECURSIVE Ulp(_, _)
Ulp(m, u) == IF m < RealLimit * u THEN u ELSE Ulp(m, 2 * u)

\* magnitude m rounded to the nearest `real`, ties to the even significand
RoundMag(m) ==
    LET u == Ulp(m, 1)
        lo == (m \div u) * u
    IN  IF 2 * (m - lo) < u THEN lo
        ELSE IF 2 * (m - lo) > u THEN lo + u
        ELSE IF (lo \div u) % 2 = 0 THEN lo ELSE lo + u

\* the integer v rounded to `real`
RoundInt(v) ==
    IF v < RealLimit /\ 0 - v < RealLimit THEN v
    ELSE IF v >= 0 THEN RoundMag(v) ELSE 0 - RoundMag(0 - v)

\* the result x of an operation, rounded to `real` (x is evaluated once)
Real(x) == [v \in Int |-> RoundInt(v)][x]

RAdd(x, y) == Real(x + y)

RSub(x, y) == Real(x - y)

RMul(x, y) == Real((x * y) \div ONE)

RSqrt(v) == CHOOSE r \in 0..(v * ONE + 1) : r * r <= v * ONE /\ (r + 1) * (r + 1) > v * ONE

\* sin of k twelfths of a full turn, in thousandths
Sin12 == <<0, 500, 866, 1000, 866, 500, 0, -500, -866, -1000, -866, -500>>

\* round-to-nearest conversion of thousandths to `real`
FromMilli(m) == IF m >= 0 THEN (m * ONE + 500) \div 1000 ELSE 0 - ((((0 - m) * ONE) + 500) \div 1000)

\* sin(2.0 * pi * iy / (ny - 1))
y0(iy, ny_) == FromMilli(Sin12[(((12 * iy) \div (ny_ - 1)) % 12) + 1])

\* tree reduction of s[lo..hi]
RECURSIVE TreeSum(_, _, _)
TreeSum(s, lo, hi) ==
    IF lo = hi THEN s[lo]
    ELSE [mid \in Int |-> RAdd(TreeSum(s, lo, mid), TreeSum(s, mid + 1, hi))][(lo + hi) \div 2]

\* ------------------------------------------------------------- the kernels
dim_block_x == 32

dim_block_y == 4

iy_start == 1

iy_end(ny_) == ny_ - 1

\* dim3 dim_grid((nx + dim_block_x - 1) / dim_block_x, (ny + dim_block_y - 1) / dim_block_y, 1)
dim_grid(nx_, ny_) == <<(nx_ + dim_block_x - 1) \div dim_block_x, (ny_ + dim_block_y - 1) \div dim_block_y>>

Blocks(nx_, ny_) == (0..(dim_grid(nx_, ny_)[1] - 1)) \X (0..(dim_grid(nx_, ny_)[2] - 1))

\* the threads of one block, as <<threadIdx.x, threadIdx.y>>
Threads == (0..(dim_block_x - 1)) \X (0..(dim_block_y - 1))

ThreadIy(b, t) == b[2] * dim_block_y + t[2] + 1

ThreadIx(b, t) == b[1] * dim_block_x + t[1]

\* the interior predicate that guards the update
\* variant: the column test starts at 0
InteriorMutCol0(iy, ix, nx_, ny_) == iy < iy_end(ny_) /\ ix >= 0 /\ ix < (nx_ - 1)

Interior(iy, ix, nx_, ny_) == iy < iy_end(ny_) /\ ix >= 1 /\ ix < (nx_ - 1)

new_val(A, iy, ix, nx_) ==
    RMul(ONE \div 4, RAdd(RAdd(A[iy * nx_ + ix + 1], A[iy * nx_ + ix - 1]),
                          RAdd(A[(iy + 1) * nx_ + ix], A[(iy - 1) * nx_ + ix])))

\* the stores of one thread into a_new, as <<index, value>> pairs
\* variant: row iy_end - 1 is not copied to the ghost row iy_start - 1
ThreadWritesMutNoWrap(A, b, t, nx_, ny_) ==
    LET iy == ThreadIy(b, t)
        ix == ThreadIx(b, t)
    IN  IF ~Interior(iy, ix, nx_, ny_) THEN {}
        ELSE LET v == new_val(A, iy, ix, nx_)
             IN  {<<iy * nx_ + ix, v>>}
                 \cup (IF iy_start = iy THEN {<<iy_end(ny_) * nx_ + ix, v>>} ELSE {})

ThreadWrites(A, b, t, nx_, ny_) ==
    LET iy == ThreadIy(b, t)
        ix == ThreadIx(b, t)
    IN  IF ~Interior(iy, ix, nx_, ny_) THEN {}
        ELSE LET v == new_val(A, iy, ix, nx_)
             IN  {<<iy * nx_ + ix, v>>}
                 \cup (IF iy_start = iy THEN {<<iy_end(ny_) * nx_ + ix, v>>} ELSE {})
                 \cup (IF (iy_end(ny_) - 1) = iy THEN {<<(iy_start - 1) * nx_ + ix, v>>} ELSE {})

BlockWrites(A, b, nx_, ny_) == UNION {ThreadWrites(A, b, t, nx_, ny_) : t \in Threads}

\* local_l2_norm of one thread
local_l2_norm(A, b, t, nx_, ny_) ==
    LET iy == ThreadIy(b, t)
        ix == ThreadIx(b, t)
    IN  IF ~Interior(iy, ix, nx_, ny_) THEN 0
        ELSE LET residue == RSub(new_val(A, iy, ix, nx_), A[iy * nx_ + ix])
             IN  RMul(residue, residue)

\* BlockReduce(temp_storage).Sum(local_l2_norm): threads in linear order
ThreadSeq == [i \in 1..(dim_block_x * dim_block_y) |->
                 <<(i - 1) % dim_block_x, (i - 1) \div dim_block_x>>]

block_l2_norm(A, b, nx_, ny_) ==
    TreeSum([i \in 1..Len(ThreadSeq) |-> local_l2_norm(A, b, ThreadSeq[i], nx_, ny_)],
            1, Len(ThreadSeq))

\* a_new after the stores of block b
ApplyWrites(Anew, W) ==
    [i \in DOMAIN Anew |-> IF \E w \in W : w[1] = i
                           THEN (CHOOSE w \in W : w[1] = i)[2]
                           ELSE Anew[i]]

\* initialize_boundaries on one array
initialize_boundaries(A, nx_, ny_) ==
    [i \in DOMAIN A |-> IF i % nx_ = 0 \/ i % nx_ = nx_ - 1
                        THEN y0(i \div nx_, ny_)
                        ELSE A[i]]

\* the adds of the kernel of iteration k, as <<k, block>>
KernelTags(k, nx_, ny_) == {<<k, b>> : b \in Blocks(nx_, ny_)}

\* the tag of a value no kernel produced
InitialTags == {<<0 - 1, <<0 - 1, 0 - 1>>>>}

\* ------------------------------------------------------------------ state
VARIABLES
    pc,                        \* the host thread's position in main
    iter_max, nccheck, nx, ny, csv,   \* the parsed arguments
    exit_status,               \* <<>> while main runs, then <<its return value>>
    err,                       \* lines written to stderr
    resources,                 \* device resources selected, allocated or created
    buf,                       \* the two device arrays, by handle 1 and 2
    a, a_new,                  \* main's handles to the arrays (0: not allocated)
    d, h,                      \* l2_norm_bufs[i].d and *l2_norm_bufs[i].h, i = 0, 1
    dTag, hTag,                \* which <<iteration, block>> adds each value holds
    l2_norms, iter, l2_norm_greater_than_tol,
    queue,                     \* per stream, the operations enqueued and not finished
    busy,                      \* per stream, whether the head operation is executing
    blocksDone,                \* blocks of the executing kernel that have finished
    recorded,                  \* per event, the iterations of the hipEventRecord calls made
    completed,                 \* per event, the latest recording that has completed
    launched,                  \* number of jacobi_kernel launches
    finished,                  \* <<iteration, sum>> of every finished jacobi_kernel
    evaluated                  \* <<iteration, value, tags>> of every evaluation

vars == <<pc, iter_max, nccheck, nx, ny, csv, exit_status, err, resources, buf, a, a_new,
          d, h, dTag, hTag, l2_norms, iter, l2_norm_greater_than_tol, queue, busy,
          blocksDone, recorded, completed, launched, finished, evaluated>>

args == <<iter_max, nccheck, nx, ny, csv>>

grid == <<buf, a, a_new>>

slots == <<d, h, dTag, hTag>>

device == <<queue, busy, blocksDone, recorded, completed>>

compute_stream == "compute_stream"

copy_l2_norm_stream == "copy_l2_norm_stream"

reset_l2_norm_stream == "reset_l2_norm_stream"

Streams == {compute_stream, copy_l2_norm_stream, reset_l2_norm_stream}

compute_done == <<"compute_done", 0>>

reset_l2_norm_done(i) == <<"reset_l2_norm_done", i>>

copy_done(i) == <<"copy_done", i>>

Events == {compute_done} \cup {reset_l2_norm_done(i) : i \in 0..1} \cup {copy_done(i) : i \in 0..1}

NoEvent == <<"none", 0>>

\* an operation in a stream: what it is, the event and recording it concerns,
\* the norm slot it touches, the iteration that enqueued it, the arrays it uses
Op(o, e, v, s, k, src, dst) == [op |-> o, ev |-> e, ver |-> v, slot |-> s, it |-> k, src |-> src, dst |-> dst]

Enqueue(s, o) == queue' = [queue EXCEPT ![s] = Append(@, o)]

\* ------------------------------------------------------- main: start-up
Init ==
    /\ pc = "check_nccheck"
    /\ iter_max \in (0 - 1)..MaxIterMax
    /\ nccheck \in 0..MaxNccheck
    /\ \E shape \in Shapes : nx = shape[1] /\ ny = shape[2]
    /\ csv \in BOOLEAN
    /\ exit_status = <<>>
    /\ err = <<>>
    /\ resources = {}
    /\ buf = <<>>
    /\ a = 0
    /\ a_new = 0
    /\ d = <<>>
    /\ h = <<>>
    /\ dTag = <<>>
    /\ hTag = <<>>
    /\ l2_norms = [i \in 0..1 |-> 0]
    /\ iter = 0
    /\ l2_norm_greater_than_tol = TRUE
    /\ queue = [s \in Streams |-> <<>>]
    /\ busy = [s \in Streams |-> FALSE]
    /\ blocksDone = {}
    /\ recorded = [e \in Events |-> <<>>]
    /\ completed = [e \in Events |-> 0]
    /\ launched = 0
    /\ finished = {}
    /\ evaluated = {}

\* if (nccheck != 1) { fprintf(stderr, ...); return -1; }
\* variant: the device is selected before nccheck is tested
CheckNccheckMutLate ==
    /\ pc = "check_nccheck"
    /\ IF nccheck # 1
       THEN /\ err' = Append(err, "Only nccheck = 1 is supported")
            /\ exit_status' = <<0 - 1>>
            /\ pc' = "exited"
            /\ resources' = resources \cup {"device"}
       ELSE /\ pc' = "setup_grid"
            /\ UNCHANGED <<err, exit_status, resources>>
    /\ UNCHANGED <<args, grid, slots, l2_norms, iter, l2_norm_greater_than_tol, device,
                   launched, finished, evaluated>>

CheckNccheck ==
    /\ pc = "check_nccheck"
    /\ IF nccheck # 1
       THEN /\ err' = Append(err, "Only nccheck = 1 is supported")
            /\ exit_status' = <<0 - 1>>
            /\ pc' = "exited"
       ELSE /\ pc' = "setup_grid"
            /\ UNCHANGED <<err, exit_status>>
    /\ UNCHANGED <<args, resources, grid, slots, l2_norms, iter, l2_norm_greater_than_tol,
                   device, launched, finished, evaluated>>

\* hipSetDevice .. hipDeviceSynchronize: the arrays are allocated, zeroed and
\* given their boundary columns
SetupGrid ==
    /\ pc = "setup_grid"
    /\ resources' = resources \cup {"device", "a", "a_new"}
    /\ a' = 1
    /\ a_new' = 2
    /\ LET zero == [i \in 0..(nx * ny - 1) |-> 0]
       IN  buf' = <<initialize_boundaries(zero, nx, ny), initialize_boundaries(zero, nx, ny)>>
    /\ pc' = "setup_pipeline"
    /\ UNCHANGED <<args, exit_status, err, slots, l2_norms, iter, l2_norm_greater_than_tol,
                   device, launched, finished, evaluated>>

\* streams and events are created; each slot's accumulator is zeroed and its
\* host mirror set to 1.0; hipDeviceSynchronize
\* variant: the host mirrors start at 0.0
SetupPipelineMutZero ==
    /\ pc = "setup_pipeline"
    /\ resources' = resources \cup {"streams", "events", "l2_norm_bufs"}
    /\ d' = [i \in 0..1 |-> 0]
    /\ h' = [i \in 0..1 |-> 0]
    /\ dTag' = [i \in 0..1 |-> {}]
    /\ hTag' = [i \in 0..1 |-> InitialTags]
    /\ pc' = "loop_init"
    /\ UNCHANGED <<args, exit_status, err, grid, l2_norms, iter, l2_norm_greater_than_tol,
                   device, launched, finished, evaluated>>

SetupPipeline ==
    /\ pc = "setup_pipeline"
    /\ resources' = resources \cup {"streams", "events", "l2_norm_bufs"}
    /\ d' = [i \in 0..1 |-> 0]
    /\ h' = [i \in 0..1 |-> ONE]
    /\ dTag' = [i \in 0..1 |-> {}]
    /\ hTag' = [i \in 0..1 |-> InitialTags]
    /\ pc' = "loop_init"
    /\ UNCHANGED <<args, exit_status, err, grid, l2_norms, iter, l2_norm_greater_than_tol,
                   device, launched, finished, evaluated>>

\* int iter = 0; l2_norms[i] = 0.0; bool l2_norm_greater_than_tol = true
LoopInit ==
    /\ pc = "loop_init"
    /\ iter' = 0
    /\ l2_norms' = [i \in 0..1 |-> 0]
    /\ l2_norm_greater_than_tol' = TRUE
    /\ pc' = "while"
    /\ UNCHANGED <<args, exit_status, err, resources, grid, slots, device, launched,
                   finished, evaluated>>

\* ------------------------------------------------------ main: solve loop
\* variant: prev names the slot of the current kernel
prevMutNext(k) == (k + 1) % 2

prev(k) == k % 2

\* variant: curr names the same slot as prev
currMutSame(k) == k % 2

curr(k) == (k + 1) % 2

\* while (l2_norm_greater_than_tol && iter < iter_max)
\* variant: the cap is tested with <=
WhileMutNoCap ==
    /\ pc = "while"
    /\ pc' = IF l2_norm_greater_than_tol /\ iter < iter_max + 1 THEN "wait_reset" ELSE "device_sync"
    /\ UNCHANGED <<args, exit_status, err, resources, grid, slots, l2_norms, iter,
                   l2_norm_greater_than_tol, device, launched, finished, evaluated>>

While ==
    /\ pc = "while"
    /\ pc' = IF l2_norm_greater_than_tol /\ iter < iter_max THEN "wait_reset" ELSE "device_sync"
    /\ UNCHANGED <<args, exit_status, err, resources, grid, slots, l2_norms, iter,
                   l2_norm_greater_than_tol, device, launched, finished, evaluated>>

\* variant: the wait is for the next recording of the event, not the latest
StreamWaitEventMutNext(stream, event) ==
    Enqueue(stream, Op("wait", event, Len(recorded[event]) + 1, 0 - 1, iter, 0, 0))

\* hipStreamWaitEvent(stream, event, 0): later work of the stream waits for the
\* recording of the event that is the latest at the time of this call
StreamWaitEvent(stream, event) ==
    Enqueue(stream, Op("wait", event, Len(recorded[event]), 0 - 1, iter, 0, 0))

\* hipEventRecord(event, stream)
EventRecord(event, stream) ==
    /\ recorded' = [recorded EXCEPT ![event] = Append(@, iter)]
    /\ Enqueue(stream, Op("record", event, Len(recorded[event]) + 1, 0 - 1, iter, 0, 0))

\* hipStreamWaitEvent(compute_stream, reset_l2_norm_done[curr], 0)
\* variant: the compute stream does not wait for the reset
WaitResetMutNone ==
    /\ pc = "wait_reset"
    /\ pc' = "launch"
    /\ UNCHANGED <<args, exit_status, err, resources, grid, slots, l2_norms, iter,
                   l2_norm_greater_than_tol, device, launched, finished, evaluated>>

WaitReset ==
    /\ pc = "wait_reset"
    /\ StreamWaitEvent(compute_stream, reset_l2_norm_done(curr(iter)))
    /\ pc' = "launch"
    /\ UNCHANGED <<args, exit_status, err, resources, grid, slots, l2_norms, iter,
                   l2_norm_greater_than_tol, busy, blocksDone, recorded, completed,
                   launched, finished, evaluated>>

\* hipLaunchKernelGGL(jacobi_kernel, ..., compute_stream, a_new, a, l2_norm_bufs[curr].d, ...)
LaunchKernel ==
    /\ pc = "launch"
    /\ Enqueue(compute_stream, Op("kernel", NoEvent, 0, curr(iter), iter, a, a_new))
    /\ launched' = launched + 1
    /\ pc' = "record_compute"
    /\ UNCHANGED <<args, exit_status, err, resources, grid, slots, l2_norms, iter,
                   l2_norm_greater_than_tol, busy, blocksDone, recorded, completed,
                   finished, evaluated>>

\* hipEventRecord(compute_done, compute_stream), then the test of the check cadence
RecordCompute ==
    /\ pc = "record_compute"
    /\ EventRecord(compute_done, compute_stream)
    /\ pc' = IF (iter % nccheck) = 0 \/ (~csv /\ (iter % 100) = 0) THEN "copy_wait" ELSE "swap"
    /\ UNCHANGED <<args, exit_status, err, resources, grid, slots, l2_norms, iter,
                   l2_norm_greater_than_tol, busy, blocksDone, completed, launched,
                   finished, evaluated>>

\* hipStreamWaitEvent(copy_l2_norm_stream, compute_done, 0)
\* variant: the copy stream does not wait for compute_done
CopyWaitMutNone ==
    /\ pc = "copy_wait"
    /\ pc' = "copy"
    /\ UNCHANGED <<args, exit_status, err, resources, grid, slots, l2_norms, iter,
                   l2_norm_greater_than_tol, device, launched, finished, evaluated>>

CopyWait ==
    /\ pc = "copy_wait"
    /\ StreamWaitEvent(copy_l2_norm_stream, compute_done)
    /\ pc' = "copy"
    /\ UNCHANGED <<args, exit_status, err, resources, grid, slots, l2_norms, iter,
                   l2_norm_greater_than_tol, busy, blocksDone, recorded, completed,
                   launched, finished, evaluated>>

\* hipMemcpyAsync(l2_norm_bufs[curr].h, l2_norm_bufs[curr].d, ..., copy_l2_norm_stream)
CopyAsync ==
    /\ pc = "copy"
    /\ Enqueue(copy_l2_norm_stream, Op("memcpy", NoEvent, 0, curr(iter), iter, 0, 0))
    /\ pc' = "record_copy"
    /\ UNCHANGED <<args, exit_status, err, resources, grid, slots, l2_norms, iter,
                   l2_norm_greater_than_tol, busy, blocksDone, recorded, completed,
                   launched, finished, evaluated>>

\* hipEventRecord(l2_norm_bufs[curr].copy_done, copy_l2_norm_stream)
RecordCopy ==
    /\ pc = "record_copy"
    /\ EventRecord(copy_done(curr(iter)), copy_l2_norm_stream)
    /\ pc' = "event_sync"
    /\ UNCHANGED <<args, exit_status, err, resources, grid, slots, l2_norms, iter,
                   l2_norm_greater_than_tol, busy, blocksDone, completed, launched,
                   finished, evaluated>>

\* hipEventSynchronize(event) returns once the latest recording has completed
EventComplete(event) == completed[event] >= Len(recorded[event])

\* hipEventSynchronize(l2_norm_bufs[prev].copy_done)
\* variant: the host does not wait for the copy
EventSyncMutNone ==
    /\ pc = "event_sync"
    /\ pc' = "evaluate"
    /\ UNCHANGED <<args, exit_status, err, resources, grid, slots, l2_norms, iter,
                   l2_norm_greater_than_tol, device, launched, finished, evaluated>>

\* variant: the host waits for the copy of the current iteration
EventSyncMutCurr ==
    /\ pc = "event_sync"
    /\ EventComplete(copy_done(curr(iter)))
    /\ pc' = "evaluate"
    /\ UNCHANGED <<args, exit_status, err, resources, grid, slots, l2_norms, iter,
                   l2_norm_greater_than_tol, device, launched, finished, evaluated>>

EventSync ==
    /\ pc = "event_sync"
    /\ EventComplete(copy_done(prev(iter)))
    /\ pc' = "evaluate"
    /\ UNCHANGED <<args, exit_status, err, resources, grid, slots, l2_norms, iter,
                   l2_norm_greater_than_tol, device, launched, finished, evaluated>>

\* l2_norms[prev] = sqrt(*l2_norm_bufs[prev].h); l2_norm_greater_than_tol = (l2_norms[prev] > tol)
Evaluate ==
    /\ pc = "evaluate"
    /\ l2_norms' = [l2_norms EXCEPT ![prev(iter)] = RSqrt(h[prev(iter)])]
    /\ l2_norm_greater_than_tol' = (RSqrt(h[prev(iter)]) > tol)
    /\ evaluated' = evaluated \cup {<<iter, h[prev(iter)], hTag[prev(iter)]>>}
    /\ pc' = "reset_host"
    /\ UNCHANGED <<args, exit_status, err, resources, grid, slots, iter, device, launched,
                   finished>>

\* l2_norms[prev] = 0.0; *(l2_norm_bufs[prev].h) = 0.0
ResetHost ==
    /\ pc = "reset_host"
    /\ l2_norms' = [l2_norms EXCEPT ![prev(iter)] = 0]
    /\ h' = [h EXCEPT ![prev(iter)] = 0]
    /\ hTag' = [hTag EXCEPT ![prev(iter)] = {}]
    /\ pc' = "reset_device"
    /\ UNCHANGED <<args, exit_status, err, resources, grid, d, dTag, iter,
                   l2_norm_greater_than_tol, device, launched, finished, evaluated>>

\* hipMemsetAsync(l2_norm_bufs[prev].d, 0, sizeof(real), reset_l2_norm_stream)
ResetDevice ==
    /\ pc = "reset_device"
    /\ Enqueue(reset_l2_norm_stream, Op("memset", NoEvent, 0, prev(iter), iter, 0, 0))
    /\ pc' = "record_reset"
    /\ UNCHANGED <<args, exit_status, err, resources, grid, slots, l2_norms, iter,
                   l2_norm_greater_than_tol, busy, blocksDone, recorded, completed,
                   launched, finished, evaluated>>

\* hipEventRecord(reset_l2_norm_done[prev], reset_l2_norm_stream)
\* variant: the reset-done event of slot curr is recorded
RecordResetMutCurr ==
    /\ pc = "record_reset"
    /\ EventRecord(reset_l2_norm_done(curr(iter)), reset_l2_norm_stream)
    /\ pc' = "swap"
    /\ UNCHANGED <<args, exit_status, err, resources, grid, slots, l2_norms, iter,
                   l2_norm_greater_than_tol, busy, blocksDone, completed, launched,
                   finished, evaluated>>

RecordReset ==
    /\ pc = "record_reset"
    /\ EventRecord(reset_l2_norm_done(prev(iter)), reset_l2_norm_stream)
    /\ pc' = "swap"
    /\ UNCHANGED <<args, exit_status, err, resources, grid, slots, l2_norms, iter,
                   l2_norm_greater_than_tol, busy, blocksDone, completed, launched,
                   finished, evaluated>>

\* std::swap(a_new, a); iter++
\* variant: the handles are not exchanged
SwapMutKeep ==
    /\ pc = "swap"
    /\ iter' = iter + 1
    /\ pc' = "while"
    /\ UNCHANGED <<args, exit_status, err, resources, grid, slots, l2_norms,
                   l2_norm_greater_than_tol, device, launched, finished, evaluated>>

Swap ==
    /\ pc = "swap"
    /\ a' = a_new
    /\ a_new' = a
    /\ iter' = iter + 1
    /\ pc' = "while"
    /\ UNCHANGED <<args, exit_status, err, resources, buf, slots, l2_norms,
                   l2_norm_greater_than_tol, device, launched, finished, evaluated>>

\* hipDeviceSynchronize() after the loop returns once every stream is idle
DeviceSync ==
    /\ pc = "device_sync"
    /\ \A s \in Streams : queue[s] = <<>>
    /\ pc' = "teardown"
    /\ UNCHANGED <<args, exit_status, err, resources, grid, slots, l2_norms, iter,
                   l2_norm_greater_than_tol, device, launched, finished, evaluated>>

\* the report, the frees and destroys, return 0
Teardown ==
    /\ pc = "teardown"
    /\ resources' = {"device"}
    /\ exit_status' = <<0>>
    /\ pc' = "exited"
    /\ UNCHANGED <<args, err, grid, slots, l2_norms, iter, l2_norm_greater_than_tol,
                   device, launched, finished, evaluated>>

Host ==
    \/ CheckNccheck
    \/ SetupGrid
    \/ SetupPipeline
    \/ LoopInit
    \/ While
    \/ WaitReset
    \/ LaunchKernel
    \/ RecordCompute
    \/ CopyWait
    \/ CopyAsync
    \/ RecordCopy
    \/ EventSync
    \/ Evaluate
    \/ ResetHost
    \/ ResetDevice
    \/ RecordReset
    \/ Swap
    \/ DeviceSync
    \/ Teardown

\* ------------------------------------------------------------ the device
Front(s) == queue[s][1]

Ready(s, o) == queue[s] # <<>> /\ queue[s][1].op = o

Pop(s) == queue' = [queue EXCEPT ![s] = Tail(@)]

\* a stream passes a wait once the recording it waits for has completed
StreamWaitPass(s) ==
    /\ Ready(s, "wait")
    /\ completed[Front(s).ev] >= Front(s).ver
    /\ Pop(s)
    /\ UNCHANGED <<pc, args, exit_status, err, resources, grid, slots, l2_norms, iter,
                   l2_norm_greater_than_tol, busy, blocksDone, recorded, completed,
                   launched, finished, evaluated>>

\* a recording completes when the stream reaches it
StreamRecordComplete(s) ==
    /\ Ready(s, "record")
    /\ completed' = [completed EXCEPT ![Front(s).ev] = Front(s).ver]
    /\ Pop(s)
    /\ UNCHANGED <<pc, args, exit_status, err, resources, grid, slots, l2_norms, iter,
                   l2_norm_greater_than_tol, busy, blocksDone, recorded, launched,
                   finished, evaluated>>

\* the head operation of a stream begins executing
OpStart(s) ==
    /\ queue[s] # <<>>
    /\ Front(s).op \in {"kernel", "memcpy", "memset"}
    /\ ~busy[s]
    /\ busy' = [busy EXCEPT ![s] = TRUE]
    /\ UNCHANGED <<pc, args, exit_status, err, resources, grid, slots, l2_norms, iter,
                   l2_norm_greater_than_tol, queue, blocksDone, recorded, completed,
                   launched, finished, evaluated>>

\* one block of the executing jacobi_kernel: its stores into a_new and its
\* atomicAdd(l2_norm, block_l2_norm)
\* variant: the block sum is stored, not added
KernelBlockMutStore(s, b) ==
    /\ Ready(s, "kernel")
    /\ busy[s]
    /\ b \in Blocks(nx, ny) \ blocksDone
    /\ blocksDone' = blocksDone \cup {b}
    /\ LET k == Front(s)
       IN  /\ dTag' = [dTag EXCEPT ![k.slot] = @ \cup {<<k.it, b>>}]
           /\ d' = [d EXCEPT ![k.slot] = block_l2_norm(buf[k.src], b, nx, ny)]
           /\ \E stores \in {BlockWrites(buf[k.src], b, nx, ny)} :
                  buf' = [buf EXCEPT ![k.dst] = ApplyWrites(@, stores)]
    /\ UNCHANGED <<pc, args, exit_status, err, resources, a, a_new, h, hTag, l2_norms, iter,
                   l2_norm_greater_than_tol, queue, busy, recorded, completed, launched,
                   finished, evaluated>>

KernelBlock(s, b) ==
    /\ Ready(s, "kernel")
    /\ busy[s]
    /\ b \in Blocks(nx, ny) \ blocksDone
    /\ blocksDone' = blocksDone \cup {b}
    /\ LET k == Front(s)
       IN  /\ dTag' = [dTag EXCEPT ![k.slot] = @ \cup {<<k.it, b>>}]
           /\ d' = [d EXCEPT ![k.slot] = RAdd(@, block_l2_norm(buf[k.src], b, nx, ny))]
           /\ \E stores \in {BlockWrites(buf[k.src], b, nx, ny)} :
                  buf' = [buf EXCEPT ![k.dst] = ApplyWrites(@, stores)]
    /\ UNCHANGED <<pc, args, exit_status, err, resources, a, a_new, h, hTag, l2_norms, iter,
                   l2_norm_greater_than_tol, queue, busy, recorded, completed, launched,
                   finished, evaluated>>

\* the kernel is finished when all its blocks are
KernelFinish(s) ==
    /\ Ready(s, "kernel")
    /\ busy[s]
    /\ blocksDone = Blocks(nx, ny)
    /\ finished' = finished \cup {<<Front(s).it, d[Front(s).slot]>>}
    /\ blocksDone' = {}
    /\ busy' = [busy EXCEPT ![s] = FALSE]
    /\ Pop(s)
    /\ UNCHANGED <<pc, args, exit_status, err, resources, grid, slots, l2_norms, iter,
                   l2_norm_greater_than_tol, recorded, completed, launched, evaluated>>

\* the device-to-host copy of one accumulator lands in its host mirror
MemcpyFinish(s) ==
    /\ Ready(s, "memcpy")
    /\ busy[s]
    /\ h' = [h EXCEPT ![Front(s).slot] = d[Front(s).slot]]
    /\ hTag' = [hTag EXCEPT ![Front(s).slot] = dTag[Front(s).slot]]
    /\ busy' = [busy EXCEPT ![s] = FALSE]
    /\ Pop(s)
    /\ UNCHANGED <<pc, args, exit_status, err, resources, grid, d, dTag, l2_norms, iter,
                   l2_norm_greater_than_tol, blocksDone, recorded, completed, launched,
                   finished, evaluated>>

\* the memset of one accumulator
MemsetFinish(s) ==
    /\ Ready(s, "memset")
    /\ busy[s]
    /\ d' = [d EXCEPT ![Front(s).slot] = 0]
    /\ dTag' = [dTag EXCEPT ![Front(s).slot] = {}]
    /\ busy' = [busy EXCEPT ![s] = FALSE]
    /\ Pop(s)
    /\ UNCHANGED <<pc, args, exit_status, err, resources, grid, h, hTag, l2_norms, iter,
                   l2_norm_greater_than_tol, blocksDone, recorded, completed, launched,
                   finished, evaluated>>

StreamStep(s) ==
    \/ StreamWaitPass(s)
    \/ StreamRecordComplete(s)
    \/ OpStart(s)
    \/ \E b \in Blocks(nx, ny) : KernelBlock(s, b)
    \/ KernelFinish(s)
    \/ MemcpyFinish(s)
    \/ MemsetFinish(s)

Device == \E s \in Streams : StreamStep(s)

Next == Host \/ Device

Spec == Init /\ [][Next]_vars

\* the device executes every stream that has work; the host thread keeps running
FairSpec == Spec /\ WF_vars(Host) /\ \A s \in Streams : WF_vars(StreamStep(s))

\* ------------------------------------- failing device runtime calls
\* The failing calls explored are hipHostMalloc at set-up, every call of the
\* loop body, the hipDeviceSynchronize after the loop and hipFree at teardown.
\* A call that fails has no effect besides its return value.
\* largest number of failing calls explored in one run
MaxFailures == 2

\* largest -niter value explored with failing calls
MaxIterFail == 2

\* runs with failing calls are explored on the smallest grid
FailInit ==
    /\ Init
    /\ nccheck = 1
    /\ iter_max \in 0..MaxIterFail
    /\ nx = 3 /\ ny = 3
    /\ csv

\* one more call may return an error
CanFail == nccheck = 1 /\ Len(err) < MaxFailures

\* CUDA_RT_CALL(call) when call returns an error: one line goes to stderr, and
\* that is all the macro does
Diagnostic(call) == err' = Append(err, call)

\* hipHostMalloc(&l2_norm_bufs[i].h, sizeof(real)) fails: l2_norm_bufs[i].h keeps
\* the indeterminate value of an uninitialised local, and the next statement,
\* (*l2_norm_bufs[i].h) = 1.0, stores through it.  The store either faults, and
\* the process is killed by SIGSEGV, or lands in writable memory, and main goes on.
SetupPipelineHostMallocFails ==
    /\ pc = "setup_pipeline"
    /\ CanFail
    /\ Diagnostic("hipHostMalloc")
    /\ \E faults \in BOOLEAN :
           IF faults
           THEN /\ pc' = "exited"
                /\ exit_status' = <<128 + 11>>
                /\ UNCHANGED <<resources, slots>>
           ELSE /\ resources' = resources \cup {"streams", "events", "l2_norm_bufs"}
                /\ d' = [i \in 0..1 |-> 0]
                /\ h' = [i \in 0..1 |-> ONE]
                /\ dTag' = [i \in 0..1 |-> {}]
                /\ hTag' = [i \in 0..1 |-> InitialTags]
                /\ pc' = "loop_init"
                /\ UNCHANGED exit_status
    /\ UNCHANGED <<args, grid, l2_norms, iter, l2_norm_greater_than_tol, device, launched,
                   finished, evaluated>>

\* the call of one statement of the loop body fails: nothing is enqueued or
\* waited for, and main goes on to the next statement
LoopCallFails ==
    /\ pc \in {"wait_reset", "copy_wait", "copy", "record_copy", "event_sync",
               "reset_device", "record_reset"}
    /\ CanFail
    /\ Diagnostic(pc)
    /\ pc' = CASE pc = "wait_reset" -> "launch"
               [] pc = "copy_wait" -> "copy"
               [] pc = "copy" -> "record_copy"
               [] pc = "record_copy" -> "event_sync"
               [] pc = "event_sync" -> "evaluate"
               [] pc = "reset_device" -> "record_reset"
               [] pc = "record_reset" -> "swap"
    /\ UNCHANGED <<args, exit_status, resources, grid, slots, l2_norms, iter,
                   l2_norm_greater_than_tol, device, launched, finished, evaluated>>

\* the launch fails: hipGetLastError() returns the error and no kernel runs
LaunchFails ==
    /\ pc = "launch"
    /\ CanFail
    /\ Diagnostic("hipGetLastError")
    /\ pc' = "record_compute"
    /\ UNCHANGED <<args, exit_status, resources, grid, slots, l2_norms, iter,
                   l2_norm_greater_than_tol, device, launched, finished, evaluated>>

\* hipEventRecord(compute_done, compute_stream) fails; the cadence is tested as usual
RecordComputeFails ==
    /\ pc = "record_compute"
    /\ CanFail
    /\ Diagnostic("hipEventRecord")
    /\ pc' = IF (iter % nccheck) = 0 \/ (~csv /\ (iter % 100) = 0) THEN "copy_wait" ELSE "swap"
    /\ UNCHANGED <<args, exit_status, resources, grid, slots, l2_norms, iter,
                   l2_norm_greater_than_tol, device, launched, finished, evaluated>>

\* hipDeviceSynchronize() after the loop fails: main goes on without waiting
DeviceSyncFails ==
    /\ pc = "device_sync"
    /\ CanFail
    /\ Diagnostic("hipDeviceSynchronize")
    /\ pc' = "teardown"
    /\ UNCHANGED <<args, exit_status, resources, grid, slots, l2_norms, iter,
                   l2_norm_greater_than_tol, device, launched, finished, evaluated>>

\* hipFree(a) fails: the array stays allocated, main returns 0
TeardownFails ==
    /\ pc = "teardown"
    /\ CanFail
    /\ Diagnostic("hipFree")
    /\ resources' = {"device", "a"}
    /\ exit_status' = <<0>>
    /\ pc' = "exited"
    /\ UNCHANGED <<args, grid, slots, l2_norms, iter, l2_norm_greater_than_tol,
                   device, launched, finished, evaluated>>

HostFail ==
    \/ SetupPipelineHostMallocFails
    \/ LoopCallFails
    \/ LaunchFails
    \/ RecordComputeFails
    \/ DeviceSyncFails
    \/ TeardownFails

NextFail == Next \/ HostFail

\* main with device runtime calls that may fail
SpecFail == FailInit /\ [][NextFail]_vars

\* ------------------------------------------- one jacobi_kernel launch
\* grids are filled from seeds 0 .. MaxSeed
MaxSeed == 2

\* the shapes explored here; 3 x 11 needs three blocks
KernelShapes == Shapes \cup {<<3, 11>>}

\* the values a cell of the input grid takes: -1.0, -1/3, 0.0, 1/5, 1.0
Levels == <<0 - ONE, 0 - (ONE \div 3), 0, ONE \div 5, ONE>>

\* the input grid chosen by a seed
Pattern(seed, nx_, ny_) ==
    [i \in 0..(nx_ * ny_ - 1) |->
        Levels[((seed[1] * i + seed[2] * (i \div nx_) + seed[3] * i * i) % 5) + 1]]

\* an output grid whose cells all differ and that no update produces
Untouched(nx_, ny_) == [i \in 0..(nx_ * ny_ - 1) |-> 2 * ONE + i]

\* main has launched the kernel of iteration 0 on a grid a of arbitrary content;
\* the accumulator it is given holds zero
KernelInit ==
    /\ pc = "record_compute"
    /\ iter_max = 1
    /\ nccheck = 1
    /\ \E shape \in KernelShapes : nx = shape[1] /\ ny = shape[2]
    /\ csv = TRUE
    /\ exit_status = <<>>
    /\ err = <<>>
    /\ resources = {"device", "a", "a_new", "streams", "events", "l2_norm_bufs"}
    /\ \E seed \in (0..MaxSeed) \X (0..MaxSeed) \X (0..MaxSeed) :
           buf = <<Pattern(seed, nx, ny), Untouched(nx, ny)>>
    /\ a = 1
    /\ a_new = 2
    /\ d = [i \in 0..1 |-> 0]
    /\ h = [i \in 0..1 |-> ONE]
    /\ dTag = [i \in 0..1 |-> {}]
    /\ hTag = [i \in 0..1 |-> InitialTags]
    /\ l2_norms = [i \in 0..1 |-> 0]
    /\ iter = 0
    /\ l2_norm_greater_than_tol = TRUE
    /\ queue = [s \in Streams |->
                   IF s = compute_stream
                   THEN <<Op("kernel", NoEvent, 0, curr(0), 0, 1, 2)>>
                   ELSE <<>>]
    /\ busy = [s \in Streams |-> FALSE]
    /\ blocksDone = {}
    /\ recorded = [e \in Events |-> <<>>]
    /\ completed = [e \in Events |-> 0]
    /\ launched = 1
    /\ finished = {}
    /\ evaluated = {}

\* the compute stream executes the kernel, block by block in any order
NextKernel ==
    \/ OpStart(compute_stream)
    \/ \E b \in Blocks(nx, ny) : KernelBlock(compute_stream, b)
    \/ KernelFinish(compute_stream)

SpecKernel == KernelInit /\ [][NextKernel]_vars

\* ------------------------------------------------------------ type check
TypeOK ==
    /\ pc \in {"check_nccheck", "setup_grid", "setup_pipeline", "loop_init", "while",
               "wait_reset", "launch", "record_compute", "copy_wait", "copy", "record_copy",
               "event_sync", "evaluate", "reset_host", "reset_device", "record_reset",
               "swap", "device_sync", "teardown", "exited"}
    /\ iter \in 0..(MaxIterMax + 1)
    /\ \A s \in Streams : Len(queue[s]) <= 12

\* ------------------------------------------------------------- the claims
KernelRunning == Ready(compute_stream, "kernel") /\ busy[compute_stream]

Pending(s, o) == {i \in DOMAIN queue[s] : queue[s][i].op = o}

\* C1: while the kernel of iteration k executes it accumulates into slot
\* (k+1) mod 2, which held zero when it began (the accumulator holds the adds
\* of this kernel's finished blocks and nothing else), every memset of that
\* slot enqueued by an earlier iteration has completed, and no memset of that
\* slot is executing.
C1_SlotZeroWhenKernelRuns ==
    KernelRunning =>
        LET k == Front(compute_stream)
        IN  /\ k.slot = (k.it + 1) % 2
            /\ dTag[k.slot] = {<<k.it, b>> : b \in blocksDone}
            /\ (blocksDone = {} => d[k.slot] = 0)
            /\ \A i \in Pending(reset_l2_norm_stream, "memset") :
                   queue[reset_l2_norm_stream][i].slot = k.slot
                       => /\ queue[reset_l2_norm_stream][i].it > k.it
                          /\ ~(i = 1 /\ busy[reset_l2_norm_stream])

\* C1 witness: a kernel is accumulating into a slot that the kernel two
\* iterations earlier left non-zero
C1_Witness ==
    /\ KernelRunning
    /\ Front(compute_stream).it >= 2
    /\ blocksDone # {}
    /\ \E f \in finished : f[1] = Front(compute_stream).it - 2 /\ f[2] > 0

CopyRunning == Ready(copy_l2_norm_stream, "memcpy") /\ busy[copy_l2_norm_stream]

\* C2: while the copy enqueued in iteration k executes, the kernel of iteration
\* k has finished and the accumulator holds exactly that kernel's adds; a host
\* mirror never holds part of a kernel's adds.
C2_CopyAfterKernel ==
    /\ CopyRunning =>
           LET c == Front(copy_l2_norm_stream)
           IN  /\ c.it \in {f[1] : f \in finished}
               /\ c.slot = (c.it + 1) % 2
               /\ dTag[c.slot] = KernelTags(c.it, nx, ny)
               /\ <<c.it, d[c.slot]>> \in finished
    /\ \A i \in DOMAIN hTag :
           hTag[i] \in {{}, InitialTags} \cup {KernelTags(k, nx, ny) : k \in 0..iter}

\* C2 witness: the copy of a later iteration executes after compute_done has
\* been recorded again
C2_Witness ==
    /\ CopyRunning
    /\ Front(copy_l2_norm_stream).it >= 1
    /\ Len(recorded[compute_done]) > Front(copy_l2_norm_stream).it + 1

\* C3: a memset enqueued in iteration k, and the host's zeroing of the mirror in
\* iteration k, find no copy of that slot from an earlier iteration unfinished.
C3_ResetAfterCopy ==
    /\ \A i \in Pending(reset_l2_norm_stream, "memset") :
           \A j \in Pending(copy_l2_norm_stream, "memcpy") :
               queue[copy_l2_norm_stream][j].slot = queue[reset_l2_norm_stream][i].slot
                   => queue[copy_l2_norm_stream][j].it > queue[reset_l2_norm_stream][i].it
    /\ pc \in {"reset_host", "reset_device", "record_reset"} =>
           \A j \in Pending(copy_l2_norm_stream, "memcpy") :
               queue[copy_l2_norm_stream][j].slot # iter % 2

\* C3 witness: a reset of iteration k >= 1 is pending, so a copy of iteration
\* k-1 existed
C3_Witness ==
    /\ Pending(reset_l2_norm_stream, "memset") # {}
    /\ queue[reset_l2_norm_stream][1].it >= 1
    /\ pc = "record_reset"

\* C4 as stated: the value read in iteration k, for every k, is the sum the
\* kernel of iteration k-1 accumulated, made of that kernel's adds only.
C4_EveryReadIsKernelSum ==
    \A e \in evaluated :
        /\ <<e[1] - 1, e[2]>> \in finished
        /\ e[3] = KernelTags(e[1] - 1, nx, ny)

\* C4 amended: the value read in iteration k >= 1 is the sum the kernel of
\* iteration k-1 accumulated, made of that kernel's adds only; the value read in
\* iteration 0 is the mirror's initial 1.0, which no kernel produced.
C4_ReadIsPreviousKernelSum ==
    \A e \in evaluated :
        IF e[1] = 0
        THEN e[2] = ONE /\ e[3] = InitialTags
        ELSE /\ <<e[1] - 1, e[2]>> \in finished
             /\ e[3] = KernelTags(e[1] - 1, nx, ny)

\* C4 witness: a non-zero sum is read in iteration 2 while the kernel of
\* iteration 2 has been launched
C4_Witness ==
    /\ \E e \in evaluated : e[1] = 2 /\ e[2] > 0
    /\ launched = 3
    /\ iter = 2

HostLoopPcs == {"while", "wait_reset", "launch", "record_compute", "copy_wait", "copy",
                "record_copy", "event_sync", "evaluate", "reset_host", "reset_device",
                "record_reset", "swap"}

\* every copy-stream operation of an earlier iteration has completed
PrevCopyDone == \A j \in DOMAIN queue[copy_l2_norm_stream] : queue[copy_l2_norm_stream][j].it >= iter

\* C5: inside the loop the host thread can always take its next step, whatever
\* the streams hold, except at the hipEventSynchronize, where it can exactly
\* when the copy-stream work of the previous iteration has completed.
C5_OnlyBlockingWaitIsPrevCopy ==
    pc \in HostLoopPcs => (ENABLED Host <=> (pc = "event_sync" => PrevCopyDone))

\* C5 witness: the kernel of iteration k+1 is enqueued while the kernel of
\* iteration k has not finished
C5_Witness ==
    /\ Cardinality(Pending(compute_stream, "kernel")) = 2
    /\ queue[compute_stream][1].op = "kernel"
    /\ ~busy[compute_stream]

AllIdle == \A s \in Streams : queue[s] = <<>> /\ ~busy[s]

\* C6: under fair execution of the host and of each stream, main returns with
\* every stream idle, and after a run with nccheck = 1 every launched kernel
\* has finished and the status is 0.
C6_Terminates ==
    <>(/\ pc = "exited"
       /\ AllIdle
       /\ (nccheck = 1 => exit_status = <<0>> /\ Cardinality(finished) = launched))

\* C6 witness: a run of at least three iterations has returned
C6_Witness == pc = "exited" /\ launched >= 3 /\ AllIdle /\ exit_status = <<0>>

\* the value evaluated in the current iteration
EvaluatedNow == {e[2] : e \in {x \in evaluated : x[1] = iter}}

\* C7: the flag set by an evaluation is (sqrt(value) > tol); the loop body is
\* entered only with the flag set and iter < iter_max, and left for good only
\* with the flag clear or iter >= iter_max; the number of kernels launched
\* never exceeds iter_max and is 0 when iter_max <= 0.
C7_LoopStopsOnTolOrCap ==
    /\ pc \in {"reset_host", "reset_device", "record_reset", "swap"} =>
           \A v \in EvaluatedNow : l2_norm_greater_than_tol = (RSqrt(v) > tol)
    /\ pc \in (HostLoopPcs \ {"while"}) => l2_norm_greater_than_tol \/ pc \in {"reset_host", "reset_device", "record_reset", "swap"}
    /\ pc \in (HostLoopPcs \ {"while"}) => iter < iter_max
    /\ pc \in {"device_sync", "teardown"} => (~l2_norm_greater_than_tol \/ iter >= iter_max)
    /\ launched <= (IF iter_max > 0 THEN iter_max ELSE 0)
    /\ launched \in {iter, iter + 1}

\* C7 witness: the loop has stopped on the tolerance before the cap
C7_Witness ==
    /\ pc = "device_sync"
    /\ ~l2_norm_greater_than_tol
    /\ iter < iter_max
    /\ ny = 7

\* C8: with nccheck other than 1 main writes the error and returns -1 with no
\* device resource touched and nothing enqueued; with nccheck = 1 it writes no
\* error and goes on to set the device up.
C8_NccheckRejectedFirst ==
    /\ nccheck # 1 =>
           /\ pc \in {"check_nccheck", "exited"}
           /\ resources = {}
           /\ launched = 0
           /\ AllIdle
           /\ \A e \in Events : recorded[e] = <<>>
           /\ (pc = "exited" => exit_status = <<0 - 1>> /\ Len(err) = 1)
    /\ nccheck = 1 =>
           /\ err = <<>>
           /\ exit_status \in {<<>>, <<0>>}
           /\ (pc # "check_nccheck" => pc # "exited" \/ exit_status = <<0>>)

\* C8 witness: main has returned on an unsupported nccheck
C8_Witness == pc = "exited" /\ nccheck # 1 /\ exit_status = <<0 - 1>>

\* column ix of row iy
Cell(A, iy, ix) == A[iy * nx + ix]

\* C9: once the boundaries are initialised, both arrays hold the boundary value
\* in columns 0 and nx-1 of every row, and no block of an executing kernel
\* stores into either column.
C9_BoundaryColumnsFixed ==
    pc \notin {"check_nccheck", "setup_grid"} /\ nccheck = 1 =>
        /\ \A g \in 1..2 : \A iy \in 0..(ny - 1) :
               Cell(buf[g], iy, 0) = y0(iy, ny) /\ Cell(buf[g], iy, nx - 1) = y0(iy, ny)
        /\ KernelRunning =>
               \A b \in Blocks(nx, ny) :
                   \A w \in BlockWrites(buf[Front(compute_stream).src], b, nx, ny) :
                       w[1] % nx \notin {0, nx - 1}

\* C9 witness: both arrays have been written by kernels, rows 0 and ny-1
\* included, and the boundary is not all zero
C9_Witness ==
    /\ Cardinality(finished) >= 2
    /\ \A g \in 1..2 : Cell(buf[g], 0, 1) # 0 /\ Cell(buf[g], ny - 1, 1) # 0
    /\ \E iy \in 0..(ny - 1) : y0(iy, ny) # 0

\* the waits of the compute stream on a reset-done event
ResetWaits == {i \in Pending(compute_stream, "wait") : queue[compute_stream][i].ev[1] = "reset_l2_norm_done"}

\* C10 as stated: the recording of a reset-done event that the compute stream
\* waits for in an iteration was made two iterations earlier.
C10_WaitedTwoIterationsLater ==
    \A i \in ResetWaits :
        LET w == queue[compute_stream][i]
        IN  w.ver >= 1 => w.it = recorded[w.ev][w.ver] + 2

\* C10 amended: the reset-done recording made in step 6 of iteration k, on the
\* event of slot k mod 2, is the one step 1 waits for in the next iteration,
\* k+1; the wait of iteration 0 finds no recording.
C10_WaitedNextIteration ==
    \A i \in ResetWaits :
        LET w == queue[compute_stream][i]
        IN  /\ w.ev = reset_l2_norm_done((w.it + 1) % 2)
            /\ (w.ver = 0 <=> w.it = 0)
            /\ w.ver >= 1 => /\ w.it = recorded[w.ev][w.ver] + 1
                             /\ w.ev = reset_l2_norm_done(recorded[w.ev][w.ver] % 2)
                             /\ w.ver = Len(recorded[w.ev])

\* C10 witness: the wait of iteration 3 is in the compute stream
C10_Witness ==
    \E i \in ResetWaits : queue[compute_stream][i].it = 3 /\ queue[compute_stream][i].ver = 2

\* the iteration that made the latest recording of an event (-1: never recorded)
LastRecordedBy(e) == IF recorded[e] = <<>> THEN 0 - 1 ELSE recorded[e][Len(recorded[e])]

\* the host has issued the hipEventSynchronize of the current iteration
HostWaitIssued == pc \in {"event_sync", "evaluate"}

\* C11 as stated: in every iteration, the first included, the reset-done
\* recording the compute stream waits for and the copy-done recording the host
\* waits for exist and were made by an earlier iteration.
C11_EveryWaitFindsRecording ==
    /\ \A i \in ResetWaits :
           LET w == queue[compute_stream][i]
           IN  w.ver >= 1 /\ recorded[w.ev][w.ver] < w.it
    /\ HostWaitIssued =>
           /\ recorded[copy_done(prev(iter))] # <<>>
           /\ LastRecordedBy(copy_done(prev(iter))) < iter

\* C11 amended: in every iteration k >= 1 the reset-done recording of slot curr
\* waited for in step 1 and the copy-done recording of slot prev waited for in
\* step 4 exist and were made by iteration k-1; in iteration 0 neither event
\* has ever been recorded, so both waits have nothing to wait for.
C11_WaitFindsRecordingAfterFirst ==
    /\ \A i \in ResetWaits :
           LET w == queue[compute_stream][i]
           IN  IF w.it = 0
               THEN w.ver = 0 /\ w.ev = reset_l2_norm_done(1)
               ELSE w.ver >= 1 /\ recorded[w.ev][w.ver] = w.it - 1
    /\ pc = "launch" =>
           LastRecordedBy(reset_l2_norm_done(curr(iter))) = iter - 1
    /\ HostWaitIssued =>
           LastRecordedBy(copy_done(prev(iter))) = iter - 1

\* C11 witness: the host is at the wait of an iteration k >= 2 while the
\* compute stream still holds that iteration's wait for the reset
C11_Witness ==
    /\ pc = "event_sync"
    /\ iter >= 2
    /\ \E i \in ResetWaits : queue[compute_stream][i].it = iter

\* stream s is executing an operation o on norm slot i
Executing(s, o, i) == Ready(s, o) /\ busy[s] /\ Front(s).slot = i

\* the operations executing on norm slot i
ExecutingOn(i) ==
    {x \in {<<compute_stream, "kernel">>, <<copy_l2_norm_stream, "memcpy">>,
            <<reset_l2_norm_stream, "memset">>} : Executing(x[1], x[2], i)}

\* C12: while the kernel of iteration k >= 2 executes, the copy that iteration
\* k-2 enqueued for the same slot has completed and no copy of that slot from
\* an earlier iteration is unfinished; on each slot at most one of kernel, copy
\* and memset is executing.
C12_SlotHasOneUser ==
    /\ KernelRunning =>
           LET k == Front(compute_stream)
           IN  /\ \A j \in Pending(copy_l2_norm_stream, "memcpy") :
                      queue[copy_l2_norm_stream][j].slot = k.slot
                          => queue[copy_l2_norm_stream][j].it >= k.it
               /\ k.it >= 2 =>
                      \E p \in DOMAIN recorded[copy_done(k.slot)] :
                          /\ recorded[copy_done(k.slot)][p] = k.it - 2
                          /\ completed[copy_done(k.slot)] >= p
    /\ \A i \in 0..1 : Cardinality(ExecutingOn(i)) <= 1

\* C12 witness: the kernel of an iteration k >= 2 executes while the copy of
\* iteration k-1 executes on the other slot
C12_Witness ==
    /\ KernelRunning
    /\ Front(compute_stream).it >= 2
    /\ CopyRunning
    /\ Front(copy_l2_norm_stream).it = Front(compute_stream).it - 1

\* the iterations whose kernel has finished
FinishedIterations == {f[1] : f \in finished}

\* kernels are found in the compute stream only, in iteration order, each
\* reading the array its predecessor wrote and writing the one it read
KernelsInOrder ==
    /\ \A s \in Streams \ {compute_stream} : Pending(s, "kernel") = {}
    /\ \A i, j \in Pending(compute_stream, "kernel") :
           i < j => /\ queue[compute_stream][i].it < queue[compute_stream][j].it
                    /\ (queue[compute_stream][j].it = queue[compute_stream][i].it + 1
                           => /\ queue[compute_stream][j].src = queue[compute_stream][i].dst
                              /\ queue[compute_stream][j].dst = queue[compute_stream][i].src)
    /\ \A i \in Pending(compute_stream, "kernel") :
           LET k == queue[compute_stream][i]
           IN  /\ k.src = (k.it % 2) + 1
               /\ k.dst = ((k.it + 1) % 2) + 1
               /\ k.it \notin FinishedIterations
    /\ KernelRunning => FinishedIterations = 0..(Front(compute_stream).it - 1)
    /\ blocksDone # {} => KernelRunning

\* the host's swap step exchanges the two handles and leaves both arrays as
\* they are; after set-up only a block of the executing kernel changes an array,
\* and only the array that kernel writes
SwapExchangesHandles ==
    /\ (pc = "swap" /\ pc' # pc) => (a' = a_new /\ a_new' = a /\ buf' = buf)
    /\ (pc # "setup_grid" /\ buf' # buf) =>
           /\ KernelRunning
           /\ buf'[Front(compute_stream).src] = buf[Front(compute_stream).src]

\* C13: at most one jacobi_kernel executes at a time and kernels execute in
\* iteration order: kernel k+1 starts only after kernel k has finished, reads
\* the array kernel k wrote and writes the array kernel k read; the swap
\* exchanges the handles and copies no data.
C13_KernelsSerialisedAndAlternate == [](KernelsInOrder) /\ [][SwapExchangesHandles]_vars

\* C13 witness: the kernel of iteration k >= 1 executes while the kernel of
\* iteration k+1 is already enqueued behind it
C13_Witness ==
    /\ KernelRunning
    /\ Front(compute_stream).it >= 1
    /\ blocksDone # {}
    /\ Cardinality(Pending(compute_stream, "kernel")) = 2

\* C14 as stated: whichever device runtime calls fail, main is not aborted: it
\* never ends with a status other than 0, and it ends only after the loop has
\* run to its end (tolerance met or cap reached).
C14_FailuresNeverAbort ==
    nccheck = 1 =>
        /\ exit_status \in {<<>>, <<0>>}
        /\ pc = "exited" => /\ exit_status = <<0>>
                            /\ (~l2_norm_greater_than_tol \/ iter >= iter_max)

\* the host has passed the hipEventSynchronize of the current iteration
PastHostWait == pc \in {"evaluate", "reset_host", "reset_device", "record_reset", "swap"}

\* C15: at most two launched kernels are unfinished, and they are those of the
\* current and of the preceding iteration; once the host has passed its
\* blocking wait in iteration k, the kernel of every iteration up to k-1 has
\* finished.
C15_AtMostTwoKernelsInFlight ==
    /\ launched - Cardinality(FinishedIterations) <= 2
    /\ Cardinality(Pending(compute_stream, "kernel")) = launched - Cardinality(FinishedIterations)
    /\ \A i \in Pending(compute_stream, "kernel") :
           queue[compute_stream][i].it \in {iter - 1, iter}
    /\ PastHostWait => (0..(iter - 1)) \subseteq FinishedIterations

\* C15 witness: two kernels are unfinished when the host reaches the blocking
\* wait of an iteration k >= 1
C15_Witness ==
    /\ pc = "event_sync"
    /\ iter >= 1
    /\ launched - Cardinality(FinishedIterations) = 2

\* the kernel of the single-launch specification has finished
KernelDone == finished # {} /\ queue[compute_stream] = <<>>

\* C16: after a kernel, in the array it wrote, ghost row iy_end equals row
\* iy_start and ghost row iy_start-1 equals row iy_end-1 in every interior
\* column, and these rows hold values the kernel stored; this includes grids
\* with iy_start = iy_end-1, where one row feeds both ghost rows.
C16_GhostRowsMirrorInterior ==
    KernelDone =>
        \A ix \in 1..(nx - 2) :
            /\ Cell(buf[a_new], iy_end(ny), ix) = Cell(buf[a_new], iy_start, ix)
            /\ Cell(buf[a_new], iy_start - 1, ix) = Cell(buf[a_new], iy_end(ny) - 1, ix)
            /\ \A iy \in {iy_start - 1, iy_end(ny)} :
                   Cell(buf[a_new], iy, ix) # Cell(Untouched(nx, ny), iy, ix)

\* C16 witness: a kernel has finished on a grid with a single interior row,
\* and both ghost rows hold that row's non-zero value
C16_Witness ==
    /\ KernelDone
    /\ iy_start = iy_end(ny) - 1
    /\ Cell(buf[a_new], iy_start, 1) # 0
    /\ Cell(buf[a_new], iy_start - 1, 1) = Cell(buf[a_new], iy_end(ny), 1)

\* the interior of the grid, as the specification gives it
InteriorCell(iy, ix) == 1 <= ix /\ ix <= nx - 2 /\ iy_start <= iy /\ iy < iy_end(ny)

\* (next - cur)^2 of cell i, from the arrays the kernel read and wrote
SquaredDifference(i) ==
    ((buf[a_new][i] - buf[a][i]) * (buf[a_new][i] - buf[a][i])) \div ONE

\* the sum of f[0] .. f[n] in exact arithmetic
RECURSIVE SumTo(_, _)
SumTo(f, n) == IF n < 0 THEN 0 ELSE f[n] + SumTo(f, n - 1)

\* the exact sum of the squared differences over the interior cells
InteriorSum ==
    SumTo([i \in 0..(nx * ny - 1) |->
              IF InteriorCell(i \div nx, i % nx) THEN SquaredDifference(i) ELSE 0],
          nx * ny - 1)

\* the orders in which the blocks can perform their atomicAdd
BlockOrders ==
    {p \in [1..Cardinality(Blocks(nx, ny)) -> Blocks(nx, ny)] :
        \A i, j \in DOMAIN p : i # j => p[i] # p[j]}

\* the accumulator after the first n adds of order p, starting from zero
RECURSIVE SumInOrder(_, _)
SumInOrder(p, n) ==
    IF n = 0 THEN 0
    ELSE RAdd(SumInOrder(p, n - 1), block_l2_norm(buf[a], p[n], nx, ny))

\* the accumulator values the kernel can leave, one per order of the adds
OrderedSums == {SumInOrder(p, Cardinality(Blocks(nx, ny))) : p \in BlockOrders}

\* a thread whose indices are outside the interior stores nothing and adds
\* zero; every store goes to an interior column of the array
OutsideThreadsIdle ==
    /\ \A b \in Blocks(nx, ny) : \A t \in Threads :
           ~InteriorCell(ThreadIy(b, t), ThreadIx(b, t)) =>
               /\ ThreadWrites(buf[a], b, t, nx, ny) = {}
               /\ local_l2_norm(buf[a], b, t, nx, ny) = 0
    /\ \A b \in Blocks(nx, ny) : \A w \in BlockWrites(buf[a], b, nx, ny) :
           w[1] \in 0..(nx * ny - 1) /\ w[1] % nx \in 1..(nx - 2)
    /\ \A i \in 0..(nx * ny - 1) :
           i % nx \in {0, nx - 1} => buf[a_new][i] = Untouched(nx, ny)[i]

\* C17 as stated: whatever the order of the blocks' atomic adds, one kernel
\* leaves in the accumulator (zero before) exactly the sum over the interior
\* cells of (next - cur)^2; threads outside the interior store nothing and
\* contribute zero.
C17_ExactSumInAnyOrder ==
    KernelDone => d[curr(0)] = InteriorSum /\ OutsideThreadsIdle

\* C17 amended: one kernel leaves in the accumulator the block sums of
\* (next - cur)^2 added in the order the atomic adds happened, each addition
\* rounded to `real`; this is the exact sum over the interior cells whenever
\* that sum is small enough for no addition to round; threads outside the
\* interior store nothing and contribute zero.
C17_SumOfBlockAddsAsOrdered ==
    KernelDone =>
        /\ d[curr(0)] \in OrderedSums
        /\ (InteriorSum < RealLimit => d[curr(0)] = InteriorSum)
        /\ OutsideThreadsIdle

\* C17 witness: a kernel of three blocks has finished with a sum that another
\* order of the same adds would not have given
C17_Witness ==
    /\ KernelDone
    /\ Cardinality(Blocks(nx, ny)) = 3
    /\ Cardinality(OrderedSums) > 1
    /\ d[curr(0)] # InteriorSum

\* the loop has been left
AfterLoop == nccheck = 1 /\ pc \in {"device_sync", "teardown", "exited"}

\* C18: in iteration 0 the host's wait on copy_done of slot 0 can return at
\* once, no copy of slot 0 having been enqueued and the event never recorded;
\* the value evaluated is the mirror's initial 1.0, which no kernel produced,
\* so the flag stays set and iteration 1 is entered whenever the cap allows:
\* with iter_max >= 2 at least two kernels are launched.
C18_FirstEvaluationIsInitialValue ==
    /\ (iter = 0 /\ HostWaitIssued) =>
           /\ recorded[copy_done(0)] = <<>>
           /\ EventComplete(copy_done(0))
           /\ \A j \in Pending(copy_l2_norm_stream, "memcpy") :
                  queue[copy_l2_norm_stream][j].slot # 0
           /\ h[0] = ONE /\ hTag[0] = InitialTags
    /\ (iter = 0 /\ PastHostWait /\ pc # "evaluate") =>
           /\ evaluated = {<<0, ONE, InitialTags>>}
           /\ l2_norm_greater_than_tol
    /\ (iter = 1 /\ pc = "while") => l2_norm_greater_than_tol
    /\ (AfterLoop /\ iter_max >= 2) => launched >= 2

\* C18 witness: with a cap of at least 3 the run has ended on the tolerance
\* after exactly two kernels, the least the first evaluation allows
C18_Witness ==
    /\ pc = "exited"
    /\ iter_max >= 3
    /\ launched = 2
    /\ <<0, ONE, InitialTags>> \in evaluated

\* C19: when the loop has been left, every kernel launched belongs to a
\* completed iteration and the grids have been swapped as often; no evaluation
\* read the sum of the last kernel launched.  If the loop was left on the
\* tolerance, the deciding value was read in the last iteration, after that
\* iteration's kernel had been launched; if it was left at the cap, the sum of
\* the kernel of iteration iter_max-1 was never read.
C19_LastKernelSumNeverEvaluated ==
    /\ (PastHostWait /\ pc # "evaluate") => launched = iter + 1
    /\ AfterLoop =>
           /\ launched = iter
           /\ (iter >= 1 => a = (iter % 2) + 1)
           /\ \A e \in evaluated :
                  e[1] <= iter - 1 /\ e[3] # KernelTags(launched - 1, nx, ny)
           /\ (~l2_norm_greater_than_tol =>
                  \E e \in evaluated : e[1] = iter - 1 /\ RSqrt(e[2]) <= tol)
           /\ (l2_norm_greater_than_tol /\ iter_max >= 1 =>
                  /\ iter = iter_max
                  /\ \A e \in evaluated : e[3] # KernelTags(iter_max - 1, nx, ny))

\* C19 witness: the loop was left on the tolerance before the cap, after three
\* kernels or more, and the last kernel has finished with its sum unread
C19_Witness ==
    /\ pc = "exited"
    /\ ~l2_norm_greater_than_tol
    /\ iter < iter_max
    /\ launched >= 3
    /\ \E f \in finished : f[1] = launched - 1

====
